---- MODULE Spec2Model ----
(***************************************************************************)
(* A model of myemma's Member entity (model/member.py), its two lazy       *)
(* collections, and the RequestsAdapter response handling                  *)
(* (adapter/requests_adapter.py).                                          *)
(*                                                                         *)
(* One Member object is modelled.  Its state is the field mapping          *)
(* Member._dict and the caches of its groups and mailings collections.     *)
(* Every public operation is one action; the HTTP response the server      *)
(* gives to each request the operation issues is an input of the action.   *)
(* The variable last records the most recent call: the state it started    *)
(* from, the adapter calls it issued and what it returned or raised.       *)
(***************************************************************************)
EXTENDS Integers, Sequences, FiniteSets, TLC

VARIABLES member, groups, mailings, last

vars == <<member, groups, mailings, last>>

(***************************************************************************)
(* Bounds of the model.                                                    *)
(***************************************************************************)
\* server-issued member ids are 1..MaxMemberId
MaxMemberId == 1
\* the longest list a GET returns
MaxListLen == 2

(***************************************************************************)
(* Python values.  Every scalar is a record of the same shape so that      *)
(* values of different Python types can be compared: t is the type, n the  *)
(* number of an int or bool, s the text of a str or the name of a Status   *)
(* class.                                                                  *)
(***************************************************************************)
Val(t, n, s) == [t |-> t, n |-> n, s |-> s]
IntV(n) == Val("int", n, "")
StrV(s) == Val("str", 0, s)
BoolV(b) == Val("bool", IF b THEN 1 ELSE 0, "")
NoneV == Val("NoneType", 0, "")

\* dict helpers: a Python dict is a function from its keys
EmptyDict == [k \in {} |-> NoneV]
Has(d, k) == k \in DOMAIN d
SetItem(d, k, v) == [x \in (DOMAIN d) \cup {k} |-> IF x = k THEN v ELSE d[x]]
DelItem(d, k) == [x \in (DOMAIN d) \ {k} |-> d[x]]
DictUpdate(d, e) == [x \in (DOMAIN d) \cup (DOMAIN e) |-> IF x \in DOMAIN e THEN e[x] ELSE d[x]]
Restrict(d, ks) == [x \in (DOMAIN d) \cap ks |-> d[x]]
SeqToSet(q) == {q[i] : i \in 1..Len(q)}

\* Python truthiness of a scalar
TruthyVal(v) ==
    CASE v.t = "NoneType" -> FALSE
      [] v.t \in {"int", "bool"} -> v.n # 0
      [] v.t = "str" -> v.s # ""
      [] OTHER -> TRUE

(***************************************************************************)
(* Status enumeration (model/status.py): four singleton classes, each      *)
(* with a wire code, and the factory that resolves a code.                 *)
(***************************************************************************)
Active == Val("Status", 0, "Active")
Error == Val("Status", 0, "Error")
Forwarded == Val("Status", 0, "Forwarded")
OptOut == Val("Status", 0, "OptOut")
Statuses == {Active, Error, Forwarded, OptOut}
StatusCodes == {"a", "e", "f", "o"}

get_code(st) ==
    CASE st = Active -> "a"
      [] st = Error -> "e"
      [] st = Forwarded -> "f"
      [] st = OptOut -> "o"

\* Status.factory(code), for a recognized code given as a str value
Status_factory(v) == CHOOSE st \in Statuses : get_code(st) = v.s

(***************************************************************************)
(* JSON documents a response decodes to: null (Python None), a boolean, an *)
(* object or an array of objects.  Python truthiness: None, False, {} and  *)
(* [] are falsy.                                                           *)
(***************************************************************************)
JNull == [t |-> "null", b |-> FALSE, obj |-> EmptyDict, items |-> <<>>]
JBool(b) == [t |-> "bool", b |-> b, obj |-> EmptyDict, items |-> <<>>]
JObject(d) == [t |-> "object", b |-> FALSE, obj |-> d, items |-> <<>>]
JArray(q) == [t |-> "array", b |-> FALSE, obj |-> EmptyDict, items |-> q]

Truthy(j) ==
    CASE j.t = "null" -> FALSE
      [] j.t = "bool" -> j.b
      [] j.t = "object" -> DOMAIN j.obj # {}
      [] j.t = "array" -> Len(j.items) > 0

(***************************************************************************)
(* Wire bodies.  A body is the dict handed to the adapter: its scalar      *)
(* top-level entries, the nested 'fields' dict (when the key is present)   *)
(* and the 'group_ids' list (when the key is present).                     *)
(***************************************************************************)
Body(top, has_fields, fields, has_group_ids, group_ids) ==
    [top |-> top, has_fields |-> has_fields, fields |-> fields,
     has_group_ids |-> has_group_ids, group_ids |-> group_ids]
\* the adapter's default params={}
NoBody == Body(EmptyDict, FALSE, EmptyDict, FALSE, {})

EmptyCache == [k \in {} |-> EmptyDict]

(***************************************************************************)
(* How a call ends: it returns a value (a JSON/None value in val, a wire   *)
(* body in body, a collection's mapping in cache) or raises exc.           *)
(***************************************************************************)
Return(v) == [kind |-> "return", exc |-> "", val |-> v, body |-> NoBody, cache |-> EmptyCache]
ReturnBody(b) == [kind |-> "return", exc |-> "", val |-> JNull, body |-> b, cache |-> EmptyCache]
ReturnCache(c) == [kind |-> "return", exc |-> "", val |-> JNull, body |-> NoBody, cache |-> c]
Raise(e) == [kind |-> "raise", exc |-> e, val |-> JNull, body |-> NoBody, cache |-> EmptyCache]

(***************************************************************************)
(* RequestsAdapter._process_response: what the adapter hands back for an   *)
(* HTTP response [status_code, json].                                      *)
(***************************************************************************)
_process_response(response) ==
    IF response.status_code = 404 THEN Return(JNull)
    ELSE IF response.status_code > 200 THEN Raise("ApiRequestFailed")
    ELSE Return(response.json)

\* one adapter call as the operation issued it, with the response it got
Call(method, path, body, response) ==
    [method |-> method, path |-> path, body |-> body, response |-> response]

\* json.dumps(data): a body is encoded when all its values are numbers,
\* strings, booleans or None
JsonEncodable(body) ==
    LET scalars == {"int", "str", "bool", "NoneType"}
    IN  /\ \A k \in DOMAIN body.top : body.top[k].t \in scalars
        /\ \A k \in DOMAIN body.fields : body.fields[k].t \in scalars
        /\ \A v \in body.group_ids : v.t \in scalars

\* RequestsAdapter.post: the body is encoded before the request goes out;
\* gives [calls, result]
post(path, data, response) ==
    IF ~JsonEncodable(data)
    THEN [calls |-> <<>>, result |-> Raise("TypeError")]
    ELSE [calls |-> <<Call("post", path, data, response)>>,
          result |-> _process_response(response)]

\* account.fields.export_shortcuts(): the custom-field names of the account
Shortcuts == <<"first_name">>
\* extract()'s default top_level
DefaultTopLevel == <<"member_id", "email">>

(***************************************************************************)
(* Member._parse_raw.  A raw member dict is given as its scalar top-level  *)
(* entries (top), whether it has the key 'fields' (has_fields) and the     *)
(* dict under that key (fields).                                           *)
(***************************************************************************)
Raw(top, has_fields, fields) == [top |-> top, has_fields |-> has_fields, fields |-> fields]

_parse_raw(raw) ==
    LET r1 == IF Has(raw.top, "status")
              THEN SetItem(raw.top, "status", Status_factory(raw.top["status"]))
              ELSE raw.top
        r2 == DelItem(r1, "member_status_id")
    IN  IF raw.has_fields
        THEN DelItem(DictUpdate(r2, raw.fields), "fields")
        ELSE r2

(***************************************************************************)
(* Collections.  A cache maps a key value to the entity built from the     *)
(* element of the list that carried the key; dict() keeps the last element *)
(* of each key.                                                            *)
(***************************************************************************)
Group(x) == [type |-> "Group", dict |-> x]
Mailing(x) == [type |-> "Mailing", dict |-> x]

\* Python's equality of dict keys: True is the key 1 and False the key 0
KeyOf(v) == IF v.t = "bool" THEN [v EXCEPT !.t = "int"] ELSE v
KeyEq(a, b) == KeyOf(a) = KeyOf(b)

LastWithKey(items, key, k) ==
    items[CHOOSE i \in 1..Len(items) :
            /\ KeyEq(items[i][key], k)
            /\ \A j \in (i+1)..Len(items) : ~KeyEq(items[j][key], k)]

Path(pattern, v) == [pattern |-> pattern, arg |-> v]

\* what an operation did: the state it leaves, the calls it issued, its result
Outcome(m, g, ml, calls, result) ==
    [member |-> m, groups |-> g, mailings |-> ml, calls |-> calls, result |-> result]

\* dict(map(lambda x: (x[key], Entity(account, x)), items))
\* (of equal keys the dict keeps the first key object and the last value)
build_cache(items, key, isGroup) ==
    [k \in {items[i][key] : i \in {i \in 1..Len(items) :
                \A j \in 1..(i-1) : ~KeyEq(items[j][key], items[i][key])}} |->
        IF isGroup THEN Group(LastWithKey(items, key, k))
        ELSE Mailing(LastWithKey(items, key, k))]

\* the assignment under "if not self._dict": one GET, the cache rebuilt
\* from the list it hands back; gives [cache, calls, result]
fetch_now(m, cache, key, pattern, response, isGroup) ==
    LET call == Call("get", Path(pattern, m["member_id"]), NoBody, response)
        r == _process_response(response)
    IN  IF r.kind = "raise"
        THEN [cache |-> cache, calls |-> <<call>>, result |-> Raise(r.exc)]
        \* map() over an empty JSON object iterates no key: an empty dict
        ELSE IF r.val.t = "object" /\ DOMAIN r.val.obj = {}
        THEN [cache |-> EmptyCache, calls |-> <<call>>, result |-> ReturnCache(EmptyCache)]
        ELSE IF r.val.t # "array"
        THEN [cache |-> cache, calls |-> <<call>>, result |-> Raise("TypeError")]
        \* x[key] on an element without the key
        ELSE IF \E i \in 1..Len(r.val.items) : ~Has(r.val.items[i], key)
        THEN [cache |-> cache, calls |-> <<call>>, result |-> Raise("KeyError")]
        ELSE LET new == build_cache(r.val.items, key, isGroup)
             IN  [cache |-> new, calls |-> <<call>>, result |-> ReturnCache(new)]

\* mutant of fetch_all: the populated cache is not consulted
fetch_all_refetch(m, cache, key, pattern, response, isGroup) ==
    IF ~Has(m, "member_id")
    THEN [cache |-> cache, calls |-> <<>>, result |-> Raise("NoMemberIdError")]
    ELSE fetch_now(m, cache, key, pattern, response, isGroup)

\* mutant of fetch_all: a member without member_id is served the cache
fetch_all_unguarded(m, cache, key, pattern, response, isGroup) ==
    IF ~Has(m, "member_id") \/ DOMAIN cache # {}
    THEN [cache |-> cache, calls |-> <<>>, result |-> ReturnCache(cache)]
    ELSE fetch_now(m, cache, key, pattern, response, isGroup)

\* the body of both fetch_all methods; gives [cache, calls, result]
fetch_all(m, cache, key, pattern, response, isGroup) ==
    IF ~Has(m, "member_id")
    THEN [cache |-> cache, calls |-> <<>>, result |-> Raise("NoMemberIdError")]
    ELSE IF DOMAIN cache # {}
    THEN [cache |-> cache, calls |-> <<>>, result |-> ReturnCache(cache)]
    ELSE fetch_now(m, cache, key, pattern, response, isGroup)

\* mutant of MemberGroupCollection_fetch_all: the groups are keyed by group_id
MemberGroupCollection_fetch_all_by_id(m, cache, response) ==
    fetch_all(m, cache, "group_id", "/members/%s/groups", response, TRUE)

MemberGroupCollection_fetch_all(m, cache, response) ==
    fetch_all(m, cache, "group_name", "/members/%s/groups", response, TRUE)

MemberMailingCollection_fetch_all(m, cache, response) ==
    fetch_all(m, cache, "mailing_id", "/members/%s/mailings", response, FALSE)

(***************************************************************************)
(* Member operations.  Each gives the Outcome of one call from the member  *)
(* dict m (and caches) for the HTTP response the server would give.        *)
(***************************************************************************)

\* mutant of extract: the email is not required
extract_unchecked(m, top_level, fields_last) ==
    LET tops == SeqToSet(top_level)
        kept == {k \in DOMAIN m : k \in SeqToSet(Shortcuts \o top_level)}
        nested == kept \ tops
        clash == "fields" \in kept \cap tops /\ nested # {}
    IN  IF clash /\ ~fields_last THEN Raise("TypeError")
        ELSE IF clash
        THEN ReturnBody(Body(Restrict(m, kept \cap tops), FALSE, EmptyDict, FALSE, {}))
        ELSE ReturnBody(Body(Restrict(m, kept \cap tops), nested # {},
                             Restrict(m, nested), FALSE, {}))

\* Member.extract: gives a result (the body, NoMemberEmailError or
\* TypeError).  squash folds the kept items into one dict, so a field named
\* 'fields' that top_level names shares the key 'fields' with the nested
\* dict: an item folded after it finds the field's value where the nested
\* dict should be (TypeError), and when it comes last it replaces the nested
\* dict.  fields_last says whether self._dict.items() yields 'fields' after
\* the other kept keys; the order of a dict's items is the interpreter's.
extract(m, top_level, fields_last) ==
    IF ~Has(m, "email")
    THEN Raise("NoMemberEmailError")
    ELSE LET tops == SeqToSet(top_level)
             kept == {k \in DOMAIN m : k \in SeqToSet(Shortcuts \o top_level)}
             nested == kept \ tops
             clash == "fields" \in kept \cap tops /\ nested # {}
         IN  IF clash /\ ~fields_last THEN Raise("TypeError")
             ELSE IF clash
             THEN ReturnBody(Body(Restrict(m, kept \cap tops), FALSE, EmptyDict, FALSE, {}))
             ELSE ReturnBody(Body(Restrict(m, kept \cap tops), nested # {},
                                  Restrict(m, nested), FALSE, {}))

\* mutant of merge_outcome: member_id taken whenever the response carries it
merge_outcome_any_id(m, json) ==
    LET outcome == json.obj
        m1 == SetItem(m, "status", Status_factory(outcome["status"]))
    IN  IF json.t # "object" THEN [member |-> m, result |-> Raise("TypeError")]
        ELSE IF ~Has(outcome, "status") THEN [member |-> m, result |-> Raise("KeyError")]
        ELSE IF ~Has(outcome, "added") THEN [member |-> m1, result |-> Raise("KeyError")]
        ELSE IF ~Has(outcome, "member_id") THEN [member |-> m1, result |-> Return(JNull)]
        ELSE [member |-> SetItem(m1, "member_id", outcome["member_id"]),
              result |-> Return(JNull)]

\* the end of Member._add: the create response merged into the member;
\* gives [member, result]
merge_outcome(m, json) ==
    LET outcome == json.obj
        m1 == SetItem(m, "status", Status_factory(outcome["status"]))
    IN  IF json.t # "object" THEN [member |-> m, result |-> Raise("TypeError")]
        ELSE IF ~Has(outcome, "status") THEN [member |-> m, result |-> Raise("KeyError")]
        ELSE IF ~Has(outcome, "added") THEN [member |-> m1, result |-> Raise("KeyError")]
        ELSE IF ~TruthyVal(outcome["added"]) THEN [member |-> m1, result |-> Return(JNull)]
        ELSE IF ~Has(outcome, "member_id") THEN [member |-> m1, result |-> Raise("KeyError")]
        ELSE [member |-> SetItem(m1, "member_id", outcome["member_id"]),
              result |-> Return(JNull)]

\* Member._add
_add(m, g, ml, signup_form_id, response) ==
    LET ex == extract(m, DefaultTopLevel, TRUE)
        fetched == MemberGroupCollection_fetch_all(m, g, response)
        data1 == IF DOMAIN g # {}
                 THEN [ex.body EXCEPT !.has_group_ids = TRUE,
                                      !.group_ids = DOMAIN fetched.result.cache]
                 ELSE ex.body
        data == IF TruthyVal(signup_form_id)
                THEN [data1 EXCEPT !.top = SetItem(@, "signup_form_id", signup_form_id)]
                ELSE data1
        sent == post(Path("/members/add", NoneV), data, response)
        merged == merge_outcome(m, sent.result.val)
    IN  IF ex.kind = "raise" THEN Outcome(m, g, ml, <<>>, ex)
        ELSE IF DOMAIN g # {} /\ fetched.result.kind = "raise"
        THEN Outcome(m, fetched.cache, ml, fetched.calls, fetched.result)
        ELSE IF sent.result.kind = "raise" THEN Outcome(m, g, ml, sent.calls, sent.result)
        ELSE Outcome(merged.member, g, ml, sent.calls, merged.result)

\* mutant of status_to: Forwarded is sent as a transition target too
status_to_forwarded(m, data) ==
    IF m["status"] \in {Active, Error, OptOut, Forwarded}
    THEN [data EXCEPT !.top = SetItem(@, "status_to", StrV(get_code(m["status"])))]
    ELSE data

\* the status_to rule of Member._update
status_to(m, data) ==
    IF m["status"] \in {Active, Error, OptOut}
    THEN [data EXCEPT !.top = SetItem(@, "status_to", StrV(get_code(m["status"])))]
    ELSE data

\* mutant of _update: a falsy response is taken for success
update_ignores_falsy(m, g, ml, response) ==
    LET ex == extract(m, DefaultTopLevel, TRUE)
        data == status_to(m, ex.body)
        call == Call("put", Path("/members/%s", m["member_id"]), data, response)
        r == _process_response(response)
    IN  IF ~Has(m, "member_id") THEN Outcome(m, g, ml, <<>>, Raise("KeyError"))
        ELSE IF ex.kind = "raise" THEN Outcome(m, g, ml, <<>>, ex)
        ELSE IF ~Has(m, "status") THEN Outcome(m, g, ml, <<>>, Raise("KeyError"))
        ELSE IF r.kind = "raise" THEN Outcome(m, g, ml, <<call>>, r)
        ELSE Outcome(m, g, ml, <<call>>, Return(JNull))

\* Member._update
_update(m, g, ml, response) ==
    LET ex == extract(m, DefaultTopLevel, TRUE)
        data == status_to(m, ex.body)
        call == Call("put", Path("/members/%s", m["member_id"]), data, response)
        r == _process_response(response)
    IN  IF ~Has(m, "member_id") THEN Outcome(m, g, ml, <<>>, Raise("KeyError"))
        ELSE IF ex.kind = "raise" THEN Outcome(m, g, ml, <<>>, ex)
        ELSE IF ~Has(m, "status") THEN Outcome(m, g, ml, <<>>, Raise("KeyError"))
        ELSE IF r.kind = "raise" THEN Outcome(m, g, ml, <<call>>, r)
        ELSE IF ~Truthy(r.val) THEN Outcome(m, g, ml, <<call>>, Raise("MemberUpdateError"))
        ELSE Outcome(m, g, ml, <<call>>, Return(JNull))

\* Member.save
save(m, g, ml, signup_form_id, response) ==
    IF ~Has(m, "member_id")
    THEN _add(m, g, ml, signup_form_id, response)
    ELSE _update(m, g, ml, response)

\* mutant of opt_out: the status is set before the email check and the call
opt_out_optimistic(m, g, ml, response) ==
    LET m1 == SetItem(m, "status", OptOut)
        call == Call("put", Path("/members/email/optout/%s", m["email"]), NoBody, response)
        r == _process_response(response)
    IN  IF ~Has(m, "email") THEN Outcome(m1, g, ml, <<>>, Raise("NoMemberEmailError"))
        ELSE IF r.kind = "raise" THEN Outcome(m1, g, ml, <<call>>, r)
        ELSE Outcome(m1, g, ml, <<call>>, Return(JNull))

\* Member.opt_out
opt_out(m, g, ml, response) ==
    LET call == Call("put", Path("/members/email/optout/%s", m["email"]), NoBody, response)
        r == _process_response(response)
    IN  IF ~Has(m, "email") THEN Outcome(m, g, ml, <<>>, Raise("NoMemberEmailError"))
        ELSE IF r.kind = "raise" THEN Outcome(m, g, ml, <<call>>, r)
        ELSE IF Truthy(r.val) THEN Outcome(SetItem(m, "status", OptOut), g, ml, <<call>>, Return(JNull))
        ELSE Outcome(m, g, ml, <<call>>, Return(JNull))

\* Member.get_opt_out_detail
get_opt_out_detail(m, g, ml, response) ==
    LET call == Call("get", Path("/members/%s/optout", m["member_id"]), NoBody, response)
    IN  IF ~Has(m, "member_id") THEN Outcome(m, g, ml, <<>>, Raise("NoMemberIdError"))
        ELSE IF ~Has(m, "status") THEN Outcome(m, g, ml, <<>>, Raise("KeyError"))
        ELSE IF m["status"] # OptOut THEN Outcome(m, g, ml, <<>>, Return(JArray(<<>>)))
        ELSE Outcome(m, g, ml, <<call>>, _process_response(response))

\* mutant of has_opted_out: the comparison is inverted
has_opted_out_inverted(m, g, ml) ==
    IF ~Has(m, "status") THEN Outcome(m, g, ml, <<>>, Raise("NoMemberStatusError"))
    ELSE Outcome(m, g, ml, <<>>, Return(JBool(m["status"] # OptOut)))

\* Member.has_opted_out
has_opted_out(m, g, ml) ==
    IF ~Has(m, "status") THEN Outcome(m, g, ml, <<>>, Raise("NoMemberStatusError"))
    ELSE Outcome(m, g, ml, <<>>, Return(JBool(m["status"] = OptOut)))

(***************************************************************************)
(* Inputs: what callers pass and what the server answers.                  *)
(***************************************************************************)
MemberIds == {IntV(i) : i \in 1..MaxMemberId}
Emails == {StrV("a@b.com")}

Entry(k, vs) == {EmptyDict} \cup {SetItem(EmptyDict, k, v) : v \in vs}

\* the scalar top-level entries of a raw member dict
RawTops ==
    {DictUpdate(DictUpdate(a, b), DictUpdate(c, d)) :
        a \in Entry("member_id", MemberIds), b \in Entry("email", Emails),
        c \in Entry("status", {StrV(code) : code \in StatusCodes}),
        d \in Entry("member_status_id", {IntV(1)})}

\* the dicts found under the key 'fields' of a raw member dict
RawFields ==
    {EmptyDict,
     SetItem(SetItem(EmptyDict, "first_name", StrV("Emma")), "notes", StrV("vip")),
     SetItem(EmptyDict, "status", StrV("o")),
     SetItem(EmptyDict, "fields", StrV("x")),
     SetItem(EmptyDict, "email", StrV("x@y.com"))}

RawInputs ==
    {Raw(t, FALSE, EmptyDict) : t \in RawTops}
      \cup {Raw(t, TRUE, f) : t \in RawTops, f \in RawFields}

SeqsUpTo(S, n) == UNION {[1..k -> S] : k \in 0..n}

GroupRecord(name, id) == SetItem(SetItem(EmptyDict, "group_name", StrV(name)), "group_id", IntV(id))
GroupRecords == {GroupRecord("VIP", 1), GroupRecord("VIP", 2), GroupRecord("News", 3)}

MailingRecord(id, name) == SetItem(SetItem(EmptyDict, "mailing_id", IntV(id)), "name", StrV(name))
\* a record, a record whose mailing_id is true (the dict key 1), and a
\* record without mailing_id
MailingRecords ==
    {MailingRecord(1, "spring"),
     SetItem(MailingRecord(1, "fall"), "mailing_id", BoolV(TRUE)),
     SetItem(EmptyDict, "name", StrV("spring"))}

OptOutRecords == {SetItem(EmptyDict, "mailing_id", IntV(1))}

Response(code, json) == [status_code |-> code, json |-> json]

\* responses that do not depend on the endpoint: not found, created, server error
OtherResponses(json) == {Response(404, JNull), Response(201, json), Response(500, JNull)}

ListResponses(records) ==
    {Response(200, JArray(q)) : q \in SeqsUpTo(records, MaxListLen)}
      \cup {Response(200, JNull), Response(200, JObject(EmptyDict))}
      \cup OtherResponses(JArray(<<>>))

PutResponses ==
    {Response(200, j) : j \in {JBool(TRUE), JBool(FALSE), JNull}} \cup OtherResponses(JBool(TRUE))

AddOutcome(code, added, ids) ==
    DictUpdate(SetItem(SetItem(EmptyDict, "status", StrV(code)), "added", BoolV(added)), ids)

\* a create response carries status and added, and member_id when added
AddOutcomes ==
    {AddOutcome(code, added, ids) :
        code \in StatusCodes, added \in BOOLEAN, ids \in Entry("member_id", MemberIds)}
      \ {AddOutcome(code, TRUE, EmptyDict) : code \in StatusCodes}

PostResponses ==
    {Response(200, JObject(o)) : o \in AddOutcomes}
      \cup {Response(200, JNull)}
      \cup OtherResponses(JObject(AddOutcome("a", TRUE, SetItem(EmptyDict, "member_id", IntV(1)))))

SignupFormIds == {NoneV, IntV(7)}
TopLevels == {DefaultTopLevel, <<"email", "first_name">>, <<"email", "fields">>}

\* the (key, value) pairs a caller assigns to a member, mbr[key] = value
AssignedItems ==
    {<<"email", StrV("a@b.com")>>, <<"fields", StrV("x")>>}

(***************************************************************************)
(* The state machine.                                                      *)
(***************************************************************************)
State(m, g, ml) == [member |-> m, groups |-> g, mailings |-> ml]

LastCall(op, before, o) ==
    [op |-> op, signup_form_id |-> NoneV, top_level |-> <<>>,
     raw |-> Raw(EmptyDict, FALSE, EmptyDict),
     before |-> before, calls |-> o.calls, result |-> o.result]

\* Member.__init__: empty collections, _dict parsed from raw
Init ==
    \E raw \in RawInputs :
        /\ member = _parse_raw(raw)
        /\ groups = EmptyCache
        /\ mailings = EmptyCache
        /\ last = [LastCall("Member", State(EmptyDict, EmptyCache, EmptyCache),
                            Outcome(EmptyDict, EmptyCache, EmptyCache, <<>>, Return(JNull)))
                     EXCEPT !.raw = raw]

Do(l, o) ==
    /\ member' = o.member
    /\ groups' = o.groups
    /\ mailings' = o.mailings
    /\ last' = l

Here == State(member, groups, mailings)

\* In each action the server's response ranges over the responses of the
\* endpoint; responses the call never asks for give the same outcome.
Save ==
    \E signup_form_id \in SignupFormIds :
        \E o \in {save(member, groups, mailings, signup_form_id, response) :
                    response \in IF Has(member, "member_id") THEN PutResponses ELSE PostResponses} :
            Do([LastCall("save", Here, o) EXCEPT !.signup_form_id = signup_form_id], o)

OptOutCall ==
    \E o \in {opt_out(member, groups, mailings, response) : response \in PutResponses} :
        Do(LastCall("opt_out", Here, o), o)

GetOptOutDetail ==
    \E o \in {get_opt_out_detail(member, groups, mailings, response) :
                response \in ListResponses(OptOutRecords)} :
        Do(LastCall("get_opt_out_detail", Here, o), o)

HasOptedOut ==
    LET o == has_opted_out(member, groups, mailings)
    IN  Do(LastCall("has_opted_out", Here, o), o)

Extract ==
    \E top_level \in TopLevels :
      \E ex \in {extract(member, top_level, fields_last) : fields_last \in BOOLEAN} :
        LET o == Outcome(member, groups, mailings, <<>>, ex)
        IN  Do([LastCall("extract", Here, o) EXCEPT
                   !.top_level = top_level,
                   \* the raw dict stays on record for a member extracted
                   \* right after its construction
                   !.raw = IF last.op = "Member" THEN last.raw ELSE @], o)

GroupsFetchAll ==
    \E f \in {MemberGroupCollection_fetch_all(member, groups, response) :
                response \in ListResponses(GroupRecords)} :
        LET o == Outcome(member, f.cache, mailings, f.calls, f.result)
        IN  Do(LastCall("groups.fetch_all", Here, o), o)

MailingsFetchAll ==
    \E f \in {MemberMailingCollection_fetch_all(member, mailings, response) :
                response \in ListResponses(MailingRecords)} :
        LET o == Outcome(member, groups, f.cache, f.calls, f.result)
        IN  Do(LastCall("mailings.fetch_all", Here, o), o)

\* Member item assignment, mbr[key] = value: the caller sets a field
MemberSetItem ==
    \E kv \in AssignedItems :
        LET o == Outcome(SetItem(member, kv[1], kv[2]), groups, mailings,
                         <<>>, Return(JNull))
        IN  Do(LastCall("member.__setitem__", Here, o), o)

Next ==
    \/ MemberSetItem
    \/ Save
    \/ OptOutCall
    \/ GetOptOutDetail
    \/ HasOptedOut
    \/ Extract
    \/ GroupsFetchAll
    \/ MailingsFetchAll

Spec == Init /\ [][Next]_vars

\* Collection item assignment, groups[name] = group: the caller files a
\* group in the member's collection by hand, before or after any fetch
GroupsSetItem ==
    \E x \in GroupRecords :
        LET o == Outcome(member, SetItem(groups, x["group_name"], Group(x)), mailings,
                         <<>>, Return(JNull))
        IN  Do(LastCall("groups.__setitem__", Here, o), o)

NextAssign ==
    \/ Next
    \/ GroupsSetItem

\* the operations of Spec, and the caller's assignments to member.groups
SpecAssign == Init /\ [][NextAssign]_vars

(***************************************************************************)
(* Properties.  They are read off last: the call that led to the current   *)
(* state, the state it started from (last.before) and the adapter calls it *)
(* issued.                                                                 *)
(***************************************************************************)
CountCalls(l, method) == Cardinality({i \in DOMAIN l.calls : l.calls[i].method = method})
\* what the adapter handed back for the i-th call of l
Handed(l, i) == _process_response(l.calls[i].response)
FetchOps == {"groups.fetch_all", "mailings.fetch_all"}
CacheOf(st, op) == IF op = "groups.fetch_all" THEN st.groups ELSE st.mailings

\* the call was a save() that issued one POST to /members/add and no PUT
OnePostNoPut(l) ==
    /\ CountCalls(l, "post") = 1
    /\ CountCalls(l, "put") = 0
    /\ \A i \in DOMAIN l.calls :
         l.calls[i].method = "post" => l.calls[i].path = Path("/members/add", NoneV)

\* the call was a save() that issued one PUT to /members/{member_id} and no POST
OnePutNoPost(l) ==
    /\ CountCalls(l, "put") = 1
    /\ CountCalls(l, "post") = 0
    /\ \A i \in DOMAIN l.calls :
         l.calls[i].method = "put" =>
            l.calls[i].path = Path("/members/%s", l.before.member["member_id"])

\* C1: save() on a member without member_id (and with the email every save
\* needs) issues exactly one POST to /members/add and no PUT.
C1_CreateIssuesOnePost ==
    (/\ last.op = "save"
     /\ ~Has(last.before.member, "member_id")
     /\ Has(last.before.member, "email")) => OnePostNoPut(last)

\* C2: save() on a member with member_id (and with the email every save
\* needs) issues exactly one PUT to /members/{member_id} and no POST.
C2_UpdateIssuesOnePut ==
    (/\ last.op = "save"
     /\ Has(last.before.member, "member_id")
     /\ Has(last.before.member, "email")) => OnePutNoPost(last)

\* the call l was a fetch_all with member_id, started from an empty cache,
\* whose GET handed back a list
FetchedList(l, op) ==
    /\ l.op = op
    /\ Has(l.before.member, "member_id")
    /\ DOMAIN CacheOf(l.before, op) = {}
    /\ Len(l.calls) = 1
    /\ Handed(l, 1).kind = "return"
    /\ Handed(l, 1).val.t = "array"

\* C3 as stated: two consecutive fetch_all() calls on a collection, the
\* first from an empty cache, issue one GET in total whatever list the
\* first GET returned.
C3_AsStated ==
    [][\A op \in FetchOps :
         (FetchedList(last, op) /\ last'.op = op) =>
            CountCalls(last, "get") + CountCalls(last', "get") = 1]_vars

\* C3, amended: two consecutive fetch_all() calls on a collection, the
\* first from an empty cache, issue one GET in total whenever the first
\* call returned a non-empty mapping (its GET handed back a non-empty list
\* whose elements all carry the key).
C3_TwoFetchesOneGet ==
    [][\A op \in FetchOps :
         (/\ FetchedList(last, op)
          /\ last.result.kind = "return"
          /\ DOMAIN last.result.cache # {}
          /\ last'.op = op) =>
            CountCalls(last, "get") + CountCalls(last', "get") = 1]_vars

\* the second of two fetches: the cache was populated and no GET was issued
C3_Witness ==
    /\ last.op = "groups.fetch_all"
    /\ DOMAIN last.before.groups # {}
    /\ last.calls = <<>>
    /\ last.result.kind = "return"
    /\ last.result.cache = last.before.groups

\* C4: fetch_all() on a member without member_id raises NoMemberIdError,
\* issues no GET and leaves the caches and the member's fields unchanged.
C4_FetchWithoutIdRaises ==
    (last.op \in FetchOps /\ ~Has(last.before.member, "member_id")) =>
        /\ last.result.kind = "raise"
        /\ last.result.exc = "NoMemberIdError"
        /\ CountCalls(last, "get") = 0
        /\ Here = last.before

C4_Witness ==
    /\ last.op = "mailings.fetch_all"
    /\ ~Has(last.before.member, "member_id")
    /\ last.result.exc = "NoMemberIdError"

\* the call was a save() that took the update path and issued its PUT
UpdatePut(l) ==
    /\ l.op = "save"
    /\ Has(l.before.member, "member_id")
    /\ Len(l.calls) = 1
    /\ l.calls[1].method = "put"

\* C5: on the update path of save(), when the PUT hands back a falsy value
\* save() raises MemberUpdateError and the member's fields are what they
\* were before the call.
C5_FalsyPutRaises ==
    (/\ UpdatePut(last)
     /\ Handed(last, 1).kind = "return"
     /\ ~Truthy(Handed(last, 1).val)) =>
        /\ last.result.kind = "raise"
        /\ last.result.exc = "MemberUpdateError"
        /\ member = last.before.member

C5_Witness ==
    /\ UpdatePut(last)
    /\ last.calls[1].response.status_code = 404
    /\ last.result.exc = "MemberUpdateError"
    /\ Has(member, "first_name")

\* C6: opt_out() on a member with an email issues one PUT to
\* /members/email/optout/{email}; when the PUT hands back a truthy value the
\* status becomes OptOut and nothing else changes, and when it hands back a
\* falsy value or raises, every field keeps its value.
C6_OptOutOnlyOnTruthy ==
    (last.op = "opt_out" /\ Has(last.before.member, "email")) =>
        /\ Len(last.calls) = 1
        /\ last.calls[1].method = "put"
        /\ last.calls[1].path =
              Path("/members/email/optout/%s", last.before.member["email"])
        /\ IF Handed(last, 1).kind = "return" /\ Truthy(Handed(last, 1).val)
           THEN member = SetItem(last.before.member, "status", OptOut)
           ELSE member = last.before.member

C6_Witness ==
    /\ last.op = "opt_out"
    /\ Has(last.before.member, "status")
    /\ last.before.member["status"] = Active
    /\ Len(last.calls) = 1
    /\ Truthy(Handed(last, 1).val)
    /\ member["status"] = OptOut

\* C7: opt_out() on a member without email raises NoMemberEmailError, issues
\* no adapter call and leaves the member's fields unchanged.
C7_OptOutWithoutEmailRaises ==
    (last.op = "opt_out" /\ ~Has(last.before.member, "email")) =>
        /\ last.result.kind = "raise"
        /\ last.result.exc = "NoMemberEmailError"
        /\ last.calls = <<>>
        /\ member = last.before.member

C7_Witness ==
    /\ last.op = "opt_out"
    /\ ~Has(last.before.member, "email")
    /\ Has(last.before.member, "status")
    /\ last.result.exc = "NoMemberEmailError"

\* C8: the body of the PUT of save() has the key status_to, equal to the
\* wire code of the member's status, exactly when the status is one of
\* Active, Error, OptOut.
C8_StatusToOnlyForTargets ==
    UpdatePut(last) =>
        LET top == last.calls[1].body.top
            st == last.before.member["status"]
        IN  /\ Has(top, "status_to") <=> st \in {Active, Error, OptOut}
            /\ Has(top, "status_to") => top["status_to"] = StrV(get_code(st))

C8_Witness ==
    /\ UpdatePut(last)
    /\ last.before.member["status"] = Active
    /\ last.calls[1].body.top["status_to"] = StrV("a")

\* the call was a save() that issued the POST of the create path
CreatePost(l) ==
    /\ l.op = "save"
    /\ Len(l.calls) = 1
    /\ l.calls[1].method = "post"

\* C9: on the create path of save() the member has no member_id before the
\* POST returns; after it returns a create response, the status is the
\* Status of the response's code and member_id is set, to the response's
\* member_id, exactly when the response's added flag is true.
C9_CreateMergesResponse ==
    CreatePost(last) =>
        /\ ~Has(last.before.member, "member_id")
        /\ IF Handed(last, 1).kind = "return" /\ Handed(last, 1).val.t = "object"
           THEN LET outcome == Handed(last, 1).val.obj
                IN  /\ member["status"] = Status_factory(outcome["status"])
                    /\ Has(member, "member_id") <=> TruthyVal(outcome["added"])
                    /\ Has(member, "member_id") =>
                          member["member_id"] = outcome["member_id"]
           ELSE ~Has(member, "member_id")

C9_Witness ==
    /\ CreatePost(last)
    /\ Handed(last, 1).kind = "return"
    /\ Handed(last, 1).val.t = "object"
    /\ Handed(last, 1).val.obj["added"] = BoolV(TRUE)
    /\ Has(member, "member_id")
    /\ member["status"] = OptOut

\* C10: get_opt_out_detail() raises NoMemberIdError without a request on a
\* member without member_id; returns an empty list without a request on a
\* member with member_id whose status is not OptOut; and on a member with
\* member_id whose status is OptOut issues one GET to
\* /members/{member_id}/optout and gives back what the adapter handed back.
C10_OptOutDetail ==
    last.op = "get_opt_out_detail" =>
        LET m == last.before.member
        IN  /\ ~Has(m, "member_id") =>
                /\ last.result.kind = "raise"
                /\ last.result.exc = "NoMemberIdError"
                /\ last.calls = <<>>
            /\ (Has(m, "member_id") /\ ~(Has(m, "status") /\ m["status"] = OptOut)) =>
                /\ last.result = Return(JArray(<<>>))
                /\ last.calls = <<>>
            /\ (Has(m, "member_id") /\ Has(m, "status") /\ m["status"] = OptOut) =>
                /\ Len(last.calls) = 1
                /\ last.calls[1].method = "get"
                /\ last.calls[1].path = Path("/members/%s/optout", m["member_id"])
                /\ last.result = Handed(last, 1)

\* the call was an opt_out() whose PUT handed back a truthy value
OptedOut(l) ==
    /\ l.op = "opt_out"
    /\ Len(l.calls) = 1
    /\ Handed(l, 1).kind = "return"
    /\ Truthy(Handed(l, 1).val)

\* C11: has_opted_out() raises NoMemberStatusError on a member without
\* status; otherwise it returns whether the status equals OptOut; it issues
\* no adapter call and changes nothing.  Called right after an opt_out()
\* whose PUT handed back a truthy value, it returns true.
C11_HasOptedOut ==
    /\ [](last.op = "has_opted_out" =>
            /\ last.calls = <<>>
            /\ Here = last.before
            /\ IF Has(last.before.member, "status")
               THEN last.result = Return(JBool(last.before.member["status"] = OptOut))
               ELSE last.result.kind = "raise" /\ last.result.exc = "NoMemberStatusError")
    /\ [][(OptedOut(last) /\ last'.op = "has_opted_out") =>
            last'.result = Return(JBool(TRUE))]_vars

C11_Witness ==
    /\ last.op = "has_opted_out"
    /\ last.result = Return(JBool(TRUE))
    /\ Has(member, "email")

\* the call extracted, with the default top-level keys, a member that had
\* just been built from a raw dict with member_id, email and status
ParsedThenExtracted(l) ==
    /\ l.op = "extract"
    /\ l.top_level = DefaultTopLevel
    /\ Has(l.raw.top, "member_id")
    /\ Has(l.raw.top, "email")
    /\ Has(l.raw.top, "status")

\* C12: a member built from a raw dict with member_id, email and a
\* recognized status code, with or without nested fields, extracts (default
\* top-level keys) to a body whose top-level member_id and email are the
\* raw dict's.
C12_ParseExtractRoundTrip ==
    ParsedThenExtracted(last) =>
        /\ last.result.kind = "return"
        /\ Has(last.result.body.top, "member_id")
        /\ Has(last.result.body.top, "email")
        /\ last.result.body.top["member_id"] = last.raw.top["member_id"]
        /\ last.result.body.top["email"] = last.raw.top["email"]

\* the HTTP success statuses
SuccessStatus(code) == code >= 200 /\ code < 300

\* what the transport contract promises for a response
Promised(response) ==
    IF response.status_code = 404 THEN Return(JNull)
    ELSE IF SuccessStatus(response.status_code) THEN Return(response.json)
    ELSE Raise("ApiRequestFailed")

\* C13: for every adapter call (get, post or put alike) the adapter hands
\* back None on status 404, the decoded JSON on every success status, and
\* raises ApiRequestFailed on every other status; the operation that issued
\* the call fails with ApiRequestFailed exactly in the last case.
C13_TransportContract ==
    \A i \in DOMAIN last.calls :
        /\ Handed(last, i) = Promised(last.calls[i].response)
        /\ (Promised(last.calls[i].response).kind = "raise"
              <=> last.result = Raise("ApiRequestFailed"))

\* C14: a non-empty cache of groups, or of mailings, is left as it is by
\* every later fetch_all(), save(), opt_out(), has_opted_out(),
\* get_opt_out_detail() and extract(), whatever the server answers.
C14_CacheNeverRefreshed ==
    [][/\ DOMAIN groups # {} => groups' = groups
       /\ DOMAIN mailings # {} => mailings' = mailings]_vars

C14_Witness ==
    /\ last.op = "mailings.fetch_all"
    /\ DOMAIN last.before.mailings # {}
    /\ DOMAIN groups # {}
    /\ mailings = last.before.mailings
    /\ groups = last.before.groups

\* the call was a save() on the create path of a member with an email
CreatePath(l) ==
    /\ l.op = "save"
    /\ ~Has(l.before.member, "member_id")
    /\ Has(l.before.member, "email")

\* C15: on the create path of save(), when the groups collection holds
\* groups, the POST to /members/add is issued and its body carries
\* group_ids, the keys of the cached groups; the body carries
\* signup_form_id when one is given and has no such key when none is.
C15_CreateAttachesGroups ==
    CreatePath(last) =>
        /\ DOMAIN last.before.groups # {} =>
             /\ OnePostNoPut(last)
             /\ \A i \in DOMAIN last.calls :
                  /\ last.calls[i].body.has_group_ids
                  /\ last.calls[i].body.group_ids = DOMAIN last.before.groups
        /\ \A i \in DOMAIN last.calls :
             IF last.signup_form_id = NoneV
             THEN ~Has(last.calls[i].body.top, "signup_form_id")
             ELSE /\ Has(last.calls[i].body.top, "signup_form_id")
                  /\ last.calls[i].body.top["signup_form_id"] = last.signup_form_id

\* C16: extract(top_level) on a member with an email returns a body where
\* each field named in top_level is at the top with its value, each other
\* field named by a shortcut is under 'fields' with its value, and no other
\* field appears at either level; the member's fields stay as they were.
C16_ExtractPartitions ==
    (last.op = "extract" /\ Has(last.before.member, "email")) =>
        LET m == last.before.member
            b == last.result.body
            tops == SeqToSet(last.top_level)
            shortcuts == SeqToSet(Shortcuts)
        IN  /\ last.result.kind = "return"
            /\ Here = last.before
            /\ DOMAIN b.top \subseteq DOMAIN m
            /\ DOMAIN b.fields \subseteq DOMAIN m
            /\ b.has_fields <=> DOMAIN b.fields # {}
            /\ \A k \in DOMAIN m :
                 /\ k \in tops => Has(b.top, k) /\ b.top[k] = m[k] /\ ~Has(b.fields, k)
                 /\ (k \notin tops /\ k \in shortcuts) =>
                       Has(b.fields, k) /\ b.fields[k] = m[k] /\ ~Has(b.top, k)
                 /\ (k \notin tops /\ k \notin shortcuts) =>
                       ~Has(b.top, k) /\ ~Has(b.fields, k)

\* C17: the fields of a member built from a raw dict never hold a raw
\* status code under 'status', nor the keys member_status_id and 'fields',
\* and hold every entry of the raw dict's nested fields, also when a nested
\* key is the name of a top-level key such as status or fields.
C17_ParseNormalises ==
    last.op = "Member" =>
        /\ Has(member, "status") => member["status"] \in Statuses
        /\ ~Has(member, "member_status_id")
        /\ ~Has(member, "fields")
        /\ last.raw.has_fields =>
             \A k \in DOMAIN last.raw.fields :
                 Has(member, k) /\ member[k] = last.raw.fields[k]

\* C18: save() on a member without email raises NoMemberEmailError, with or
\* without member_id; it issues no POST and no PUT and leaves the member's
\* fields and caches as they were.
C18_SaveWithoutEmailRaises ==
    (last.op = "save" /\ ~Has(last.before.member, "email")) =>
        /\ last.result = Raise("NoMemberEmailError")
        /\ last.calls = <<>>
        /\ Here = last.before

C18_Witness ==
    /\ last.op = "save"
    /\ ~Has(last.before.member, "email")
    /\ Has(last.before.member, "member_id")
    /\ Has(last.before.member, "status")
    /\ last.result.exc = "NoMemberEmailError"

\* the sub-path and the key field of each collection
FetchPattern(op) == IF op = "groups.fetch_all" THEN "/members/%s/groups" ELSE "/members/%s/mailings"
FetchKey(op) == IF op = "groups.fetch_all" THEN "group_name" ELSE "mailing_id"

\* C19: fetch_all() on a member with member_id issues a request exactly when
\* the collection's cache is empty at the start of the call: one GET to
\* /members/{member_id}/groups, or /mailings.  The mapping it then returns
\* has one entry per distinct group_name (groups) or mailing_id (mailings)
\* of the list the adapter handed back.
C19_FetchIffEmpty ==
    (last.op \in FetchOps /\ Has(last.before.member, "member_id")) =>
        LET empty == DOMAIN CacheOf(last.before, last.op) = {}
            key == FetchKey(last.op)
        IN  /\ empty =>
                 /\ Len(last.calls) = 1
                 /\ last.calls[1].method = "get"
                 /\ last.calls[1].path =
                        Path(FetchPattern(last.op), last.before.member["member_id"])
            /\ ~empty => last.calls = <<>>
            /\ (empty /\ last.result.kind = "return") =>
                 LET items == Handed(last, 1).val.items
                     cache == last.result.cache
                 IN  /\ \A i \in DOMAIN items :
                            \E k \in DOMAIN cache : KeyEq(k, items[i][key])
                     /\ \A k \in DOMAIN cache :
                            /\ \E i \in DOMAIN items : k = items[i][key]
                            /\ KeyEq(cache[k].dict[key], k)
                            /\ \A k2 \in DOMAIN cache : KeyEq(k, k2) => k = k2

C19_Witness ==
    /\ last.op = "groups.fetch_all"
    /\ DOMAIN last.before.groups = {}
    /\ Len(last.calls) = 1
    /\ last.result.kind = "return"
    /\ Len(Handed(last, 1).val.items) = 2
    /\ Cardinality(DOMAIN last.result.cache) = 1

\* the call was a create whose POST handed back a response object with the
\* given added flag
Created(l, added) ==
    /\ CreatePost(l)
    /\ Handed(l, 1).kind = "return"
    /\ Handed(l, 1).val.t = "object"
    /\ Has(Handed(l, 1).val.obj, "added")
    /\ Handed(l, 1).val.obj["added"] = BoolV(added)

\* C20: no call removes or changes a member_id the member has, whether the
\* call succeeds or fails, and a save() on a member with member_id issues
\* no POST.  After a create answered added=true the member has a member_id
\* and the next save() issues one PUT and no POST; after a create answered
\* added=false the member has no member_id and the next save() issues one
\* POST again.
C20_MemberIdIsKept ==
    /\ [](/\ Created(last, TRUE) => Has(member, "member_id")
          /\ Created(last, FALSE) => ~Has(member, "member_id"))
    /\ [][/\ Has(member, "member_id") =>
               /\ Has(member', "member_id")
               /\ member'["member_id"] = member["member_id"]
               /\ last'.op = "save" => CountCalls(last', "post") = 0
          /\ (Created(last, TRUE) /\ last'.op = "save") => OnePutNoPost(last')
          /\ (Created(last, FALSE) /\ last'.op = "save") => OnePostNoPut(last')]_vars

C20_Witness ==
    /\ Created(last, FALSE)
    /\ Has(Handed(last, 1).val.obj, "member_id")
    /\ ~Has(member, "member_id")
    /\ Has(member, "status")

====
